---- MODULE Spec2Model ----
(***************************************************************************)
(* Market-clearing and construction model of the Victoria 3 simulator:     *)
(* a Country (service/country.py) owning one State (models/state.py) with  *)
(* its buildings and product ledger.                                       *)
(*                                                                         *)
(* Python floats are modelled as exact rationals <<numerator, denominator>>*)
(* in lowest terms with a positive denominator, so every formula below is  *)
(* about the real-number value the float arithmetic approximates.          *)
(***************************************************************************)
EXTENDS Integers, Sequences, FiniteSets, TLC

VARIABLES
    buildings,              \* State.buildings: list of Building objects
    resources,              \* State.resources: dict name -> Product
    current_construction,   \* Country.current_construction: None or an Action
    construction_progress,  \* Country.construction_progress attribute (never declared)
    error,                  \* exception raised by the last operation, or NoError
    lastOp,                 \* the last operation applied and its arguments
    pre,                    \* values of the program state before the last operation
    steps                   \* number of operations applied so far

vars == <<buildings, resources, current_construction, construction_progress,
          error, lastOp, pre, steps>>

(***************************************************************************)
(* Bounds of the exploration.                                              *)
(***************************************************************************)
MaxLevel == 2
MaxSteps == 2

(***************************************************************************)
(* Exact rational arithmetic standing for Python float arithmetic.         *)
(***************************************************************************)
RECURSIVE GCD(_, _)
GCD(a, b) == IF b = 0 THEN a ELSE GCD(b, a % b)

Abs(x) == IF x < 0 THEN -x ELSE x

Norm(n, d) ==
    LET s == IF d < 0 THEN -1 ELSE 1
        g == GCD(Abs(n), Abs(d))
    IN  IF n = 0 THEN <<0, 1>> ELSE <<(s * n) \div g, (s * d) \div g>>

R(n) == <<n, 1>>
Frac(n, d) == Norm(n, d)

\* the operations cancel common factors before they multiply
RAdd(a, b) ==
    LET g == GCD(a[2], b[2])
    IN  Norm(a[1] * (b[2] \div g) + b[1] * (a[2] \div g), (a[2] \div g) * b[2])
RNeg(a) == <<-a[1], a[2]>>
RSub(a, b) == RAdd(a, RNeg(b))
RMul(a, b) ==
    LET g1 == GCD(Abs(a[1]), b[2])
        g2 == GCD(Abs(b[1]), a[2])
    IN  IF a[1] = 0 \/ b[1] = 0 THEN <<0, 1>>
        ELSE <<(a[1] \div g1) * (b[1] \div g2), (a[2] \div g2) * (b[2] \div g1)>>
RInv(a) == IF a[1] < 0 THEN <<-a[2], -a[1]>> ELSE <<a[2], a[1]>>
RDiv(a, b) == RMul(a, RInv(b))
RLt(a, b) ==
    LET g == GCD(a[2], b[2])
    IN  a[1] * (b[2] \div g) < b[1] * (a[2] \div g)
RLe(a, b) == ~RLt(b, a)
RMin(a, b) == IF RLt(b, a) THEN b ELSE a
RMax(a, b) == IF RLt(a, b) THEN b ELSE a
Zero == R(0)
IsZero(a) == a[1] = 0

\* sum(f[k] for k in S) over a dict f restricted to the keys S
RECURSIVE RSum(_, _)
RSum(f, S) ==
    IF S = {} THEN Zero
    ELSE LET k == CHOOSE x \in S : TRUE
         IN  RAdd(f[k], RSum(f, S \ {k}))

(***************************************************************************)
(* Values outside the data: Python's None, "no exception", and the marker  *)
(* of an attribute that the object does not have.                          *)
(***************************************************************************)
None == "None"
NoError == "NoError"
Undeclared == [declared |-> FALSE, value |-> <<0, 1>>]
Declared(value) == [declared |-> TRUE, value |-> value]
\* get_building_by_name's None, as an index that no building has
NotFound == 0
\* current_construction = None
NoConstructionProject ==
    [class |-> None, action_type |-> None, state_id |-> None, building_name |-> None,
     new_production_method |-> None]

(***************************************************************************)
(* Products (models/state.py).  local_price defaults to 0.0 and            *)
(* max_price_cap to 1.75; the subclasses fix the name and base_price.      *)
(***************************************************************************)
Product(name, base_price, quantity, local_price) ==
    [name |-> name, base_price |-> base_price, quantity |-> quantity,
     local_price |-> local_price, max_price_cap |-> Frac(175, 100)]

Wood(quantity) == Product("wood", R(10), quantity, Zero)
Tools(quantity) == Product("tools", R(20), quantity, Zero)
Iron(quantity) == Product("iron", R(15), quantity, Zero)
Construction(quantity) == Product("construction", Zero, quantity, Zero)

Employee(name, wage, count) == [name |-> name, wage |-> wage, count |-> count]

(***************************************************************************)
(* The class tables of the modular buildings: production_methods and       *)
(* employee_config of LoggingCamp, ToolWorkshop and ConstructionSector.    *)
(***************************************************************************)
production_methods(kind) ==
    CASE kind = "LoggingCamp" ->
           ("SimpleForestry" :> [production |-> ("wood" :> R(30)),
                                 consumption |-> ("tools" :> R(5))]) @@
           ("SawMills" :> [production |-> ("wood" :> R(50)),
                           consumption |-> ("tools" :> R(10))])
      [] kind = "ToolWorkshop" ->
           ("CrudeTools" :> [production |-> ("tools" :> R(15)),
                             consumption |-> ("wood" :> R(5))]) @@
           ("WroughtIronTools" :> [production |-> ("tools" :> R(30)),
                                   consumption |-> (("iron" :> R(10)) @@ ("wood" :> R(5)))])
      [] kind = "ConstructionSector" ->
           ("NoConstruction" :> [production |-> ("construction" :> R(0)),
                                 consumption |-> ("wood" :> R(0))]) @@
           ("WoodenBuilding" :> [production |-> ("construction" :> R(20)),
                                 consumption |-> ("wood" :> R(10))]) @@
           ("IronBuilding" :> [production |-> ("construction" :> R(30)),
                               consumption |-> ("iron" :> R(15))])

employee_config(kind) ==
    CASE kind = "LoggingCamp" ->
           ("SimpleForestry" :>
                (("shopkeeper" :> Employee("shopkeeper", R(1), 500)) @@
                 ("laborer" :> Employee("laborer", R(1), 4500)))) @@
           ("SawMills" :>
                (("shopkeeper" :> Employee("shopkeeper", R(1), 500)) @@
                 ("laborer" :> Employee("laborer", R(1), 4000)) @@
                 ("machinist" :> Employee("machinist", R(1), 500))))
      [] kind = "ToolWorkshop" ->
           ("CrudeTools" :>
                (("shopkeeper" :> Employee("shopkeeper", R(1), 500)) @@
                 ("artisan" :> Employee("artisan", R(1), 1500)))) @@
           ("WroughtIronTools" :>
                (("shopkeeper" :> Employee("shopkeeper", R(1), 500)) @@
                 ("machinist" :> Employee("machinist", R(1), 2500))))
      [] kind = "ConstructionSector" ->
           ("NoConstruction" :>
                (("carpenter" :> Employee("carpenter", R(1), 0)) @@
                 ("laborer" :> Employee("laborer", R(1), 0)))) @@
           ("WoodenBuilding" :>
                (("carpenter" :> Employee("carpenter", R(1), 1000)) @@
                 ("laborer" :> Employee("laborer", R(1), 2000)))) @@
           ("IronBuilding" :>
                (("ironworker" :> Employee("ironworker", Frac(12, 10), 1200)) @@
                 ("laborer" :> Employee("laborer", R(1), 1800))))

(***************************************************************************)
(* ModularBuilding.__init__ through the subclass constructors: the active  *)
(* configuration is copied from the tables, cash_reserve starts at 0 and   *)
(* shortage_penalty at its default 0.0.  cash_reserve is held as the list  *)
(* of the updates made to it so far, each the revenue added and the        *)
(* expenses subtracted: the reserve is the sum of revenue - expenses over  *)
(* the list, 0 for the empty list.                                         *)
(***************************************************************************)
ModularBuilding(kind, name, build_cost, building_level, building_max_level, production_method) ==
    [kind |-> kind,
     name |-> name,
     build_cost |-> build_cost,
     cash_reserve |-> <<>>,
     building_level |-> building_level,
     building_max_level |-> building_max_level,
     production |-> production_methods(kind)[production_method].production,
     consumption |-> production_methods(kind)[production_method].consumption,
     employee |-> employee_config(kind)[production_method],
     shortage_penalty |-> Zero,
     production_method |-> production_method]

LoggingCamp(building_level, building_max_level, production_method) ==
    ModularBuilding("LoggingCamp", "Logging Camp", 200,
                    building_level, building_max_level, production_method)

ToolWorkshop(building_level, building_max_level, production_method) ==
    ModularBuilding("ToolWorkshop", "Tool Workshop", 500,
                    building_level, building_max_level, production_method)

ConstructionSector(building_level, building_max_level, production_method) ==
    ModularBuilding("ConstructionSector", "Construction Sector", 500,
                    building_level, building_max_level, production_method)

(***************************************************************************)
(* State.get_building_by_name: the first building of that name, or None.   *)
(* The result is the building's index in the list, NotFound for None.      *)
(***************************************************************************)
get_building_by_name(bs, building_name) ==
    IF \E i \in 1..Len(bs) : bs[i].name = building_name
    THEN CHOOSE i \in 1..Len(bs) :
             /\ bs[i].name = building_name
             /\ \A j \in 1..(i - 1) : bs[j].name # building_name
    ELSE NotFound

(***************************************************************************)
(* Product.adjust_price, with the default adjustment_rate of 0.05.         *)
(***************************************************************************)
adjustment_rate == Frac(5, 100)

\* mutant: the price is floored at base_price but not capped
price_clamp_without_cap(product, price) ==
    RMax(product.base_price, price)

price_clamp(product, price) ==
    RMax(product.base_price,
         RMin(price, RMul(product.base_price, product.max_price_cap)))

adjust_price(product, buy_orders, sell_orders) ==
    LET moved ==
            IF RLt(Zero, sell_orders)
            THEN LET demand_supply_ratio == RDiv(buy_orders, sell_orders)
                     target_price == RMul(product.base_price, demand_supply_ratio)
                 IN  RAdd(product.local_price,
                          RMul(adjustment_rate, RSub(target_price, product.local_price)))
            ELSE RAdd(product.local_price,
                      RMul(adjustment_rate,
                           RSub(RMul(product.base_price, product.max_price_cap),
                                product.local_price)))
    IN  [product EXCEPT !.local_price = price_clamp(product, moved)]

(***************************************************************************)
(* Building: order sizing, throughput, production, wages and cash.         *)
(***************************************************************************)
calculate_buy_orders(b) ==
    [resource \in DOMAIN b.consumption |->
        RMul(b.consumption[resource], R(b.building_level))]

\* mutant: the bonus is the level bonus alone, 0 at level 1
get_throughput_bonus_from_zero(b) ==
    IF b.building_level > 1
    THEN RMul(R(b.building_level - 1), Frac(1, 100))
    ELSE Zero

get_throughput_bonus(b) ==
    IF b.building_level > 1
    THEN RAdd(R(1), RMul(R(b.building_level - 1), Frac(1, 100)))
    ELSE R(1)

calculate_throughput_multiplier(b) ==
    LET total_bonus == RDiv(get_throughput_bonus(b), R(100))
        effective_multiplier == RSub(RAdd(R(1), total_bonus), b.shortage_penalty)
    IN  RMax(effective_multiplier, Zero)

calculate_sell_orders(b) ==
    [product \in DOMAIN b.production |->
        RMul(RMul(b.production[product], R(b.building_level)),
             calculate_throughput_multiplier(b))]

get_daily_production(b) ==
    [product \in DOMAIN b.production |->
        RMul(RMul(RMul(b.production[product], R(b.building_level)),
                  calculate_throughput_multiplier(b)),
             Frac(1, 7))]

calculate_wages(b) ==
    RSum([role \in DOMAIN b.employee |->
             RMul(RMul(RMul(Frac(1, 365), b.employee[role].wage),
                       R(b.employee[role].count)),
                  R(b.building_level))],
         DOMAIN b.employee)

\* print_daily_costs evaluates calculate_consumption_cost and
\* calculate_production_value, which index the ledger by every consumed and
\* every produced good: a good missing from the ledger raises KeyError.
print_daily_costs_raises(b, product_prices) ==
    \/ \E resource \in DOMAIN b.consumption : resource \notin DOMAIN product_prices
    \/ \E product \in DOMAIN b.production : product \notin DOMAIN product_prices

\* mutant: the cost of the consumed inputs is charged as an expense too
update_cash_balance_charging_inputs(b, product_prices) ==
    LET production == get_daily_production(b)
        revenue == RSum([product \in DOMAIN production |->
                            RMul(production[product], product_prices[product].local_price)],
                        DOMAIN production)
        input_cost == RSum([resource \in DOMAIN b.consumption |->
                               RMul(RMul(b.consumption[resource], R(b.building_level)),
                                    product_prices[resource].local_price)],
                           DOMAIN b.consumption)
        expenses == RAdd(calculate_wages(b), input_cost)
    IN  [b EXCEPT !.cash_reserve =
            Append(@, [revenue |-> revenue, expenses |-> expenses])]

update_cash_balance(b, product_prices) ==
    LET production == get_daily_production(b)
        revenue == RSum([product \in DOMAIN production |->
                            RMul(production[product], product_prices[product].local_price)],
                        DOMAIN production)
        expenses == calculate_wages(b)
    IN  [b EXCEPT !.cash_reserve =
            Append(@, [revenue |-> revenue, expenses |-> expenses])]

(***************************************************************************)
(* Building.update_shortage_penalty.  allocated_resources is the dict of   *)
(* this building's allocation; a good without an entry counts as 0.0.      *)
(***************************************************************************)
allocated_get(allocated_resources, input_good) ==
    IF input_good \in DOMAIN allocated_resources
    THEN allocated_resources[input_good]
    ELSE Zero

total_required(b, input_good) ==
    RMul(b.consumption[input_good], R(b.building_level))

shortage_ratio(b, allocated_resources, input_good) ==
    IF RLt(allocated_get(allocated_resources, input_good), total_required(b, input_good))
    THEN RSub(R(1), RDiv(allocated_get(allocated_resources, input_good),
                         total_required(b, input_good)))
    ELSE Zero

RECURSIVE RMaxOver(_, _)
RMaxOver(f, S) ==
    IF S = {} THEN Zero
    ELSE LET k == CHOOSE x \in S : TRUE
         IN  RMax(f[k], RMaxOver(f, S \ {k}))

penalty_step == Frac(1, 100)
penalty_cap == Frac(1, 2)

\* mutant: the penalty ratchets up without the 0.5 cap
update_shortage_penalty_uncapped(b, allocated_resources) ==
    LET max_penalty_based_on_shortage ==
            RMaxOver([input_good \in DOMAIN b.consumption |->
                         shortage_ratio(b, allocated_resources, input_good)],
                     DOMAIN b.consumption)
    IN  IF RLt(Zero, max_penalty_based_on_shortage)
        THEN [b EXCEPT !.shortage_penalty =
                 RMin(RAdd(b.shortage_penalty, penalty_step),
                      max_penalty_based_on_shortage)]
        ELSE [b EXCEPT !.shortage_penalty = Zero]

\* mutant: on a shortage the penalty jumps to the shortage ratio, up to the cap
update_shortage_penalty_without_ratchet(b, allocated_resources) ==
    LET max_penalty_based_on_shortage ==
            RMaxOver([input_good \in DOMAIN b.consumption |->
                         shortage_ratio(b, allocated_resources, input_good)],
                     DOMAIN b.consumption)
    IN  IF RLt(Zero, max_penalty_based_on_shortage)
        THEN [b EXCEPT !.shortage_penalty =
                 RMin(penalty_cap, max_penalty_based_on_shortage)]
        ELSE [b EXCEPT !.shortage_penalty = Zero]

\* mutant: a building in shortage also sheds a level
update_shortage_penalty_shedding_level(b, allocated_resources) ==
    LET max_penalty_based_on_shortage ==
            RMaxOver([input_good \in DOMAIN b.consumption |->
                         shortage_ratio(b, allocated_resources, input_good)],
                     DOMAIN b.consumption)
    IN  IF RLt(Zero, max_penalty_based_on_shortage)
        THEN [b EXCEPT !.shortage_penalty =
                           RMin(RMin(RAdd(b.shortage_penalty, penalty_step), penalty_cap),
                                max_penalty_based_on_shortage),
                       !.building_level = IF @ > 0 THEN @ - 1 ELSE @]
        ELSE [b EXCEPT !.shortage_penalty = Zero]

update_shortage_penalty(b, allocated_resources) ==
    LET max_penalty_based_on_shortage ==
            RMaxOver([input_good \in DOMAIN b.consumption |->
                         shortage_ratio(b, allocated_resources, input_good)],
                     DOMAIN b.consumption)
    IN  IF RLt(Zero, max_penalty_based_on_shortage)
        THEN [b EXCEPT !.shortage_penalty =
                 RMin(RMin(RAdd(b.shortage_penalty, penalty_step), penalty_cap),
                      max_penalty_based_on_shortage)]
        ELSE [b EXCEPT !.shortage_penalty = Zero]

(***************************************************************************)
(* ModularBuilding.swap_production_method: a defined method replaces the   *)
(* production and consumption mappings and the method name; the employee   *)
(* mapping is not assigned.  An undefined name only prints a message.      *)
(***************************************************************************)
swap_production_method(b, method_name) ==
    IF method_name \in DOMAIN production_methods(b.kind)
    THEN [b EXCEPT !.production = production_methods(b.kind)[method_name].production,
                   !.consumption = production_methods(b.kind)[method_name].consumption,
                   !.production_method = method_name]
    ELSE b

(***************************************************************************)
(* State.calculate_demand_supply: buy and sell orders summed per good over *)
(* the buildings.  A good nobody orders has no key (read with .get(.., 0)).*)
(***************************************************************************)
Indices(bs) == 1..Len(bs)

buy_orders_of(bs) ==
    [resource \in UNION {DOMAIN bs[i].consumption : i \in Indices(bs)} |->
        RSum([i \in Indices(bs) |->
                 IF resource \in DOMAIN bs[i].consumption
                 THEN calculate_buy_orders(bs[i])[resource]
                 ELSE Zero],
             Indices(bs))]

sell_orders_of(bs) ==
    [product \in UNION {DOMAIN bs[i].production : i \in Indices(bs)} |->
        RSum([i \in Indices(bs) |->
                 IF product \in DOMAIN bs[i].production
                 THEN calculate_sell_orders(bs[i])[product]
                 ELSE Zero],
             Indices(bs))]

calculate_demand_supply(bs) ==
    [buy_orders |-> buy_orders_of(bs), sell_orders |-> sell_orders_of(bs)]

dict_get(d, key) == IF key \in DOMAIN d THEN d[key] ELSE Zero

(***************************************************************************)
(* State.update_product_prices: a product without buy orders decays by 2%  *)
(* towards its base price, any other goes through adjust_price.            *)
(***************************************************************************)
price_decay == Frac(98, 100)

update_product_price(product, buy_orders, sell_orders) ==
    LET product_demand == dict_get(buy_orders, product.name)
        product_supply == dict_get(sell_orders, product.name)
    IN  IF IsZero(product_demand)
        THEN [product EXCEPT !.local_price =
                 RMax(product.base_price, RMul(product.local_price, price_decay))]
        ELSE adjust_price(product, product_demand, product_supply)

update_product_prices(bs, res) ==
    LET demand_supply == calculate_demand_supply(bs)
    IN  [product_name \in DOMAIN res |->
            update_product_price(res[product_name],
                                 demand_supply.buy_orders, demand_supply.sell_orders)]

(***************************************************************************)
(* State.allocate_resources: every stocked good that is a key of           *)
(* total_demand is split among its consumers in proportion to their        *)
(* demand.  The division by total_demand[resource] raises                  *)
(* ZeroDivisionError when that total is zero.                              *)
(***************************************************************************)
total_demand_of(bs) ==
    [resource \in UNION {DOMAIN bs[i].consumption : i \in Indices(bs)} |->
        RSum([i \in Indices(bs) |->
                 IF resource \in DOMAIN bs[i].consumption
                 THEN RMul(bs[i].consumption[resource], R(bs[i].building_level))
                 ELSE Zero],
             Indices(bs))]

allocated_goods(bs, res) ==
    {resource \in DOMAIN res :
        /\ RLt(Zero, res[resource].quantity)
        /\ resource \in DOMAIN total_demand_of(bs)}

allocate_raises(bs, res) ==
    \E resource \in allocated_goods(bs, res) : IsZero(total_demand_of(bs)[resource])

\* mutant: the stock is split equally among the buildings that list the good
allocated_quantity_equal_split(b, resource, total_demand, total_available) ==
    IF IsZero(total_demand[resource]) THEN Zero
    ELSE RDiv(total_available.quantity, R(2))

\* mutant: a building is allocated no more than it demands
allocated_quantity_up_to_demand(b, resource, total_demand, total_available) ==
    LET demand == RMul(b.consumption[resource], R(b.building_level))
    IN  RMin(demand, RMul(RDiv(demand, total_demand[resource]), total_available.quantity))

allocated_quantity(b, resource, total_demand, total_available) ==
    LET demand == RMul(b.consumption[resource], R(b.building_level))
    IN  RMul(RDiv(demand, total_demand[resource]), total_available.quantity)

\* keyed by building name; names are unique within a State
allocate_resources(bs, res) ==
    [name \in {bs[i].name : i \in Indices(bs)} |->
        LET b == bs[get_building_by_name(bs, name)]
        IN  [resource \in allocated_goods(bs, res) \cap DOMAIN b.consumption |->
                allocated_quantity(b, resource, total_demand_of(bs), res[resource])]]

(***************************************************************************)
(* State.calculate_building_productions: allocate, update prices, then per *)
(* building in list order: shortage penalty, deduction of the allocation   *)
(* (floored at 0), daily production, cost printout, cash, production       *)
(* credit.  An exception leaves the mutations made so far in place.        *)
(***************************************************************************)
RECURSIVE deduct(_, _, _)
deduct(res, allocation, goods) ==
    IF goods = {} THEN res
    ELSE LET resource == CHOOSE g \in goods : TRUE
             res2 ==
                 IF resource \in DOMAIN res
                 THEN [res EXCEPT ![resource].quantity =
                          RMax(Zero, RSub(@, allocation[resource]))]
                 ELSE res
         IN  deduct(res2, allocation, goods \ {resource})

\* mutant: the production is taken from the stock instead of added to it
RECURSIVE credit_subtracting(_, _, _)
credit_subtracting(res, daily_production, goods) ==
    IF goods = {} THEN res
    ELSE LET product == CHOOSE g \in goods : TRUE
         IN  credit_subtracting([res EXCEPT ![product].quantity = RSub(@, daily_production[product])],
                                daily_production, goods \ {product})

RECURSIVE credit(_, _, _)
credit(res, daily_production, goods) ==
    IF goods = {} THEN res
    ELSE LET product == CHOOSE g \in goods : TRUE
         IN  credit([res EXCEPT ![product].quantity = RAdd(@, daily_production[product])],
                    daily_production, goods \ {product})

process_building(st, i, allocations) ==
    LET b0 == st.buildings[i]
        allocation == allocations[b0.name]
        b1 == update_shortage_penalty(b0, allocation)
        res1 == deduct(st.resources, allocation, DOMAIN allocation)
        daily_production == get_daily_production(b1)
    IN  IF print_daily_costs_raises(b1, res1)
        THEN [buildings |-> [st.buildings EXCEPT ![i] = b1],
              resources |-> res1,
              error |-> "KeyError"]
        ELSE [buildings |-> [st.buildings EXCEPT ![i] = update_cash_balance(b1, res1)],
              resources |-> credit(res1, daily_production, DOMAIN daily_production),
              error |-> NoError]

\* mutant: every building's allocation is computed from the stock left when
\* its turn comes
RECURSIVE process_buildings_allocating_late(_, _, _)
process_buildings_allocating_late(st, i, allocations) ==
    IF i > Len(st.buildings) \/ st.error # NoError THEN st
    ELSE process_buildings_allocating_late(
             process_building(st, i, allocate_resources(st.buildings, st.resources)),
             i + 1, allocations)

RECURSIVE process_buildings(_, _, _)
process_buildings(st, i, allocations) ==
    IF i > Len(st.buildings) \/ st.error # NoError THEN st
    ELSE process_buildings(process_building(st, i, allocations), i + 1, allocations)

calculate_building_productions(bs, res) ==
    IF allocate_raises(bs, res)
    THEN [buildings |-> bs, resources |-> res, error |-> "ZeroDivisionError"]
    ELSE process_buildings([buildings |-> bs,
                            resources |-> update_product_prices(bs, res),
                            error |-> NoError],
                           1, allocate_resources(bs, res))

(***************************************************************************)
(* Actions (models/action.py): value objects with an action_type, a        *)
(* state_id, a building_name and, for a swap, a new_production_method.     *)
(* The field class is the Python class of the object, which isinstance     *)
(* tests.                                                                  *)
(***************************************************************************)
SwapProductionMethod(state_id, building_name, new_production_method) ==
    [class |-> "SwapProductionMethod", action_type |-> "SwapProductionMethod", state_id |-> state_id,
     building_name |-> building_name, new_production_method |-> new_production_method]

UpgradeBuilding(state_id, building_name) ==
    [class |-> "UpgradeBuilding", action_type |-> "Upgrade", state_id |-> state_id,
     building_name |-> building_name, new_production_method |-> None]

DowngradeBuilding(state_id, building_name) ==
    [class |-> "DowngradeBuilding", action_type |-> "Downgrade", state_id |-> state_id,
     building_name |-> building_name, new_production_method |-> None]

NoAction(state_id, building_name) ==
    [class |-> "NoAction", action_type |-> "NoAction", state_id |-> state_id,
     building_name |-> building_name, new_production_method |-> None]

\* the keys of Country.states: the country owns the single state "State1"
States == {"State1"}

(***************************************************************************)
(* Country: the controller.  Each operator takes the country's fields as a *)
(* record c = [buildings, current_construction, construction_progress] and *)
(* returns the fields after the call together with the exception raised.   *)
(***************************************************************************)
Outcome(c, err) ==
    [buildings |-> c.buildings,
     current_construction |-> c.current_construction,
     construction_progress |-> c.construction_progress,
     error |-> err]

swap_production_method_action(c, action) ==
    IF action.state_id \notin States THEN Outcome(c, "KeyError")
    ELSE LET i == get_building_by_name(c.buildings, action.building_name)
         IN  IF i = NotFound THEN Outcome(c, NoError)
             ELSE Outcome([c EXCEPT !.buildings[i] =
                              swap_production_method(@, action.new_production_method)],
                          NoError)

\* mutant: the upgrade is recorded even when a construction is in progress
start_upgrade_overwrites(c, action) ==
    Outcome([c EXCEPT !.current_construction = action], NoError)

start_upgrade(c, action) ==
    IF c.current_construction = NoConstructionProject
    THEN Outcome([c EXCEPT !.current_construction = action], NoError)
    ELSE Outcome(c, NoError)

\* mutant: a building at level 1 is downgraded to level 0
downgrade_building_from_one(c, action) ==
    IF action.state_id \notin States THEN Outcome(c, "KeyError")
    ELSE LET i == get_building_by_name(c.buildings, action.building_name)
         IN  IF i = NotFound THEN Outcome(c, "AttributeError")
             ELSE IF c.buildings[i].building_level >= 1
                  THEN Outcome([c EXCEPT !.buildings[i].building_level = @ - 1], NoError)
                  ELSE Outcome(c, NoError)

\* mutant: a downgrade is refused while a construction is in progress
downgrade_building_only_idle(c, action) ==
    IF action.state_id \notin States THEN Outcome(c, "KeyError")
    ELSE LET i == get_building_by_name(c.buildings, action.building_name)
         IN  IF i = NotFound THEN Outcome(c, "AttributeError")
             ELSE IF /\ c.buildings[i].building_level > 1
                     /\ c.current_construction = NoConstructionProject
                  THEN Outcome([c EXCEPT !.buildings[i].building_level = @ - 1], NoError)
                  ELSE Outcome(c, NoError)

downgrade_building(c, action) ==
    IF action.state_id \notin States THEN Outcome(c, "KeyError")
    ELSE LET i == get_building_by_name(c.buildings, action.building_name)
         IN  IF i = NotFound THEN Outcome(c, "AttributeError")
             ELSE IF c.buildings[i].building_level > 1
                  THEN Outcome([c EXCEPT !.buildings[i].building_level = @ - 1], NoError)
                  ELSE Outcome(c, NoError)

isinstance(object, class) == object.class = class

\* mutant: an action of no other class is handled as a downgrade
execute_action_downgrading_otherwise(c, action) ==
    CASE isinstance(action, "SwapProductionMethod") -> swap_production_method_action(c, action)
      [] isinstance(action, "UpgradeBuilding") -> start_upgrade(c, action)
      [] OTHER -> downgrade_building(c, action)

execute_action(c, action) ==
    CASE isinstance(action, "SwapProductionMethod") -> swap_production_method_action(c, action)
      [] isinstance(action, "UpgradeBuilding") -> start_upgrade(c, action)
      [] isinstance(action, "DowngradeBuilding") -> downgrade_building(c, action)
      [] OTHER -> Outcome(c, NoError)

(***************************************************************************)
(* Country.update_construction_progress.  The class declares no            *)
(* construction_progress field, so the read in "+=" raises AttributeError  *)
(* as long as the attribute is Undeclared; nothing ever assigns it.        *)
(***************************************************************************)
update_construction_progress(c, construction_contribution) ==
    IF c.current_construction = NoConstructionProject THEN Outcome(c, NoError)
    ELSE IF ~c.construction_progress.declared THEN Outcome(c, "AttributeError")
    ELSE LET progress == RAdd(c.construction_progress.value, construction_contribution)
             c1 == [c EXCEPT !.construction_progress = Declared(progress)]
             state_id == c.current_construction.state_id
             building_name == c.current_construction.building_name
         IN  IF state_id \notin States THEN Outcome(c1, "KeyError")
             ELSE LET i == get_building_by_name(c.buildings, building_name)
                  IN  IF i # NotFound /\ RLe(R(c.buildings[i].build_cost), progress)
                      THEN Outcome([c1 EXCEPT !.buildings[i].building_level = @ + 1,
                                              !.construction_progress = Declared(Zero),
                                              !.current_construction = NoConstructionProject],
                                   NoError)
                      ELSE Outcome(c1, NoError)

(***************************************************************************)
(* The initial state: State(id, buildings, resources) constructed directly *)
(* from a list of buildings, each with its constructor's default           *)
(* production method, and a ledger of Wood, Tools, Iron and Construction   *)
(* products, owned by a Country without a construction project.  The       *)
(* building levels and the seed stock are the topology provider's inputs;  *)
(* map_sampler seeds Construction with 0.                                  *)
(***************************************************************************)
SeedQuantities == {0, 5, 1000}

InitialLevels == {<<0, 0, 0>>, <<1, 1, 1>>, <<2, 2, 2>>, <<0, 1, 2>>, <<2, 1, 0>>, <<1, 2, 1>>}

seeded_ledger(q) ==
    ("wood" :> Wood(R(q))) @@ ("tools" :> Tools(R(q))) @@
    ("iron" :> Iron(R(q))) @@ ("construction" :> Construction(Zero))

initial_buildings(levels) ==
    <<ConstructionSector(levels[1], MaxLevel, "WoodenBuilding"),
      ToolWorkshop(levels[2], MaxLevel, "CrudeTools"),
      LoggingCamp(levels[3], MaxLevel, "SimpleForestry")>>

Snapshot ==
    [buildings |-> buildings,
     resources |-> resources,
     current_construction |-> current_construction,
     construction_progress |-> construction_progress]

Constructed(bs, res) ==
    /\ buildings = bs
    /\ resources = res
    /\ current_construction = NoConstructionProject
    /\ construction_progress = Undeclared
    /\ error = NoError
    /\ lastOp = [op |-> "construct", action |-> NoConstructionProject, contribution |-> Zero]
    /\ pre = [buildings |-> bs, resources |-> res,
              current_construction |-> NoConstructionProject,
              construction_progress |-> Undeclared]
    /\ steps = 0

Init ==
    \E q \in SeedQuantities, levels \in InitialLevels :
        Constructed(initial_buildings(levels), seeded_ledger(q))

(***************************************************************************)
(* The operations a caller applies to the country and its state, with the  *)
(* arguments it may pass: "State2" is a state id the country does not own, *)
(* "Shipyard" a building name the state does not hold, and a method name   *)
(* of one building kind is undefined for the other kinds.                  *)
(***************************************************************************)
StateIds == {"State1", "State2"}
BuildingNames == {"Construction Sector", "Tool Workshop", "Logging Camp", "Shipyard"}
MethodNames == {"SimpleForestry", "SawMills", "CrudeTools", "WroughtIronTools",
                "NoConstruction", "WoodenBuilding", "IronBuilding"}
Contributions == {80, 150}

\* the arguments of the calls explored: every action on every building of the
\* owned state, and one action of each type on the state that is not owned
ActionArguments ==
    (({"State1"} \X BuildingNames) \cup {<<"State2", "Logging Camp">>})

SwapArguments ==
    {a \in ActionArguments \X MethodNames :
        a[1][2] = "Shipyard" => a[2] = "SawMills"}

Country == [buildings |-> buildings,
            current_construction |-> current_construction,
            construction_progress |-> construction_progress]

Apply(out, op) ==
    /\ buildings' = out.buildings
    /\ current_construction' = out.current_construction
    /\ construction_progress' = out.construction_progress
    /\ error' = out.error
    /\ lastOp' = op
    /\ pre' = Snapshot

ExecuteAction(action) ==
    /\ steps < MaxSteps
    /\ Apply(execute_action(Country, action),
             [op |-> "execute_action", action |-> action, contribution |-> Zero])
    /\ steps' = steps + 1
    /\ UNCHANGED resources

Swap ==
    \E a \in SwapArguments :
        ExecuteAction(SwapProductionMethod(a[1][1], a[1][2], a[2]))

Upgrade ==
    \E a \in ActionArguments : ExecuteAction(UpgradeBuilding(a[1], a[2]))

Downgrade ==
    \E a \in ActionArguments : ExecuteAction(DowngradeBuilding(a[1], a[2]))

Pass ==
    \E a \in ActionArguments : ExecuteAction(NoAction(a[1], a[2]))

UpdateConstructionProgress ==
    \E amount \in Contributions :
        /\ steps < MaxSteps
        /\ Apply(update_construction_progress(Country, R(amount)),
                 [op |-> "update_construction_progress",
                  action |-> NoConstructionProject, contribution |-> R(amount)])
        /\ steps' = steps + 1
        /\ UNCHANGED resources

Tick ==
    /\ steps < MaxSteps
    /\ LET out == calculate_building_productions(buildings, resources)
       IN  /\ buildings' = out.buildings
           /\ resources' = out.resources
           /\ error' = out.error
    /\ lastOp' = [op |-> "calculate_building_productions",
                  action |-> NoConstructionProject, contribution |-> Zero]
    /\ pre' = Snapshot
    /\ steps' = steps + 1
    /\ UNCHANGED <<current_construction, construction_progress>>

Next ==
    \/ Swap
    \/ Upgrade
    \/ Downgrade
    \/ Pass
    \/ UpdateConstructionProgress
    \/ Tick

Spec == Init /\ [][Next]_vars

(***************************************************************************)
(* Vocabulary of the properties: what the last operation was, and the      *)
(* building it named, before and after.                                    *)
(***************************************************************************)
Executed(action_type) ==
    /\ lastOp.op = "execute_action"
    /\ lastOp.action.action_type = action_type

InProgress(cc) == cc # NoConstructionProject

TargetKnown ==
    /\ lastOp.action.state_id \in States
    /\ get_building_by_name(pre.buildings, lastOp.action.building_name) # NotFound

Target == get_building_by_name(pre.buildings, lastOp.action.building_name)

LevelsUnchanged ==
    \A i \in Indices(buildings) :
        buildings[i].building_level = pre.buildings[i].building_level

ConstructionUnchanged ==
    /\ current_construction = pre.current_construction
    /\ construction_progress = pre.construction_progress

(***************************************************************************)
(* C1  Construction exclusivity: the country holds at most one             *)
(* construction project (none, or one UpgradeBuilding action), and an      *)
(* UpgradeBuilding for any building applied while a project is in progress *)
(* leaves that project's target and its accumulated progress unchanged.    *)
(***************************************************************************)
C1_ConstructionExclusivity ==
    /\ \/ current_construction = NoConstructionProject
       \/ current_construction.action_type = "Upgrade"
    /\ (Executed("Upgrade") /\ InProgress(pre.current_construction))
           => ConstructionUnchanged

C1_Witness ==
    /\ Executed("Upgrade")
    /\ InProgress(pre.current_construction)
    /\ lastOp.action.building_name # pre.current_construction.building_name
    /\ current_construction = pre.current_construction

(***************************************************************************)
(* C2  Level bounds: every building has 0 <= building_level <=             *)
(* building_max_level in every reachable state, and a DowngradeBuilding    *)
(* applied to a building at level 1 leaves it at level 1.                  *)
(***************************************************************************)
C2_LevelBounds ==
    /\ \A i \in Indices(buildings) :
           /\ 0 <= buildings[i].building_level
           /\ buildings[i].building_level <= buildings[i].building_max_level
    /\ (Executed("Downgrade") /\ TargetKnown
            /\ pre.buildings[Target].building_level = 1)
           => buildings[Target].building_level = 1

C2_Witness ==
    /\ Executed("Downgrade")
    /\ TargetKnown
    /\ pre.buildings[Target].building_level = 1
    /\ buildings[Target].building_level = 1
    /\ error = NoError

(***************************************************************************)
(* C3  UpgradeBuilding on a building of the owned state is accepted only   *)
(* when no construction is in progress and the building's level is below   *)
(* its max level, and then the building becomes the construction target;   *)
(* otherwise the construction state and all levels are unchanged.          *)
(***************************************************************************)
C3_UpgradeAcceptedOnlyBelowMax ==
    (Executed("Upgrade") /\ TargetKnown) =>
        IF /\ ~InProgress(pre.current_construction)
           /\ pre.buildings[Target].building_level < pre.buildings[Target].building_max_level
        THEN /\ current_construction = lastOp.action
             /\ LevelsUnchanged
        ELSE /\ ConstructionUnchanged
             /\ LevelsUnchanged

(***************************************************************************)
(* C4  A contribution supplied while a construction is in progress is      *)
(* added to the accumulated progress; when the progress reaches the        *)
(* target's build_cost the target's level rises by exactly 1 and the       *)
(* controller is idle again with progress 0.                               *)
(***************************************************************************)
ProgressBefore ==
    IF pre.construction_progress.declared THEN pre.construction_progress.value ELSE Zero

C4_ContributionAccumulates ==
    (/\ lastOp.op = "update_construction_progress"
     /\ InProgress(pre.current_construction)
     /\ pre.current_construction.state_id \in States
     /\ get_building_by_name(pre.buildings, pre.current_construction.building_name) # NotFound)
    => LET i == get_building_by_name(pre.buildings, pre.current_construction.building_name)
           progress == RAdd(ProgressBefore, lastOp.contribution)
       IN  /\ error = NoError
           /\ IF RLe(R(pre.buildings[i].build_cost), progress)
              THEN /\ buildings[i].building_level = pre.buildings[i].building_level + 1
                   /\ current_construction = NoConstructionProject
                   /\ construction_progress = Declared(Zero)
              ELSE /\ current_construction = pre.current_construction
                   /\ construction_progress = Declared(progress)
                   /\ LevelsUnchanged

(***************************************************************************)
(* C10  DowngradeBuilding on a building of the owned state lowers the      *)
(* level by exactly 1 if and only if the level is above 1, whether or not  *)
(* a construction is in progress, and leaves the construction target and   *)
(* progress and every other building's level unchanged.                    *)
(***************************************************************************)
C10_Downgrade ==
    (Executed("Downgrade") /\ TargetKnown) =>
        /\ error = NoError
        /\ ConstructionUnchanged
        /\ \A i \in Indices(buildings) :
               buildings[i].building_level =
                   IF i = Target /\ pre.buildings[i].building_level > 1
                   THEN pre.buildings[i].building_level - 1
                   ELSE pre.buildings[i].building_level

C10_Witness ==
    /\ Executed("Downgrade")
    /\ TargetKnown
    /\ InProgress(pre.current_construction)
    /\ pre.buildings[Target].building_level > 1
    /\ buildings[Target].building_level = pre.buildings[Target].building_level - 1
    /\ current_construction = pre.current_construction

(***************************************************************************)
(* The market after earlier ticks: the same constructed states, with the   *)
(* shortage penalties the buildings carry after a run of scarce ticks      *)
(* (0.01 per tick, up to the cap), advanced by ticks alone.                *)
(***************************************************************************)
PenaltySeeds == {Frac(0, 1), Frac(1, 100), Frac(49, 100), Frac(99, 200), Frac(1, 2)}

with_penalty(bs, p) == [i \in Indices(bs) |-> [bs[i] EXCEPT !.shortage_penalty = p]]

InitMarket ==
    \E q \in SeedQuantities, levels \in InitialLevels, p \in PenaltySeeds :
        Constructed(with_penalty(initial_buildings(levels), p), seeded_ledger(q))

NextMarket == Tick

SpecMarket == InitMarket /\ [][NextMarket]_vars

(***************************************************************************)
(* Product.adjust_price as a function of its arguments: products at prior  *)
(* prices below, inside and above their price band, adjusted with buy and  *)
(* sell orders that include zero supply.                                   *)
(***************************************************************************)
PriceSeeds == {Frac(0, 1), Frac(5, 1), Frac(10, 1), Frac(35, 2), Frac(40, 1)}
OrderSeeds == {Frac(0, 1), Frac(1, 1), Frac(30, 1)}

priced_ledger(price) ==
    [name \in DOMAIN seeded_ledger(0) |->
        [seeded_ledger(0)[name] EXCEPT !.local_price = price]]

InitPrice ==
    \E price \in PriceSeeds :
        Constructed(initial_buildings(<<1, 1, 1>>), priced_ledger(price))

AdjustPrice ==
    \E name \in DOMAIN resources, buy \in OrderSeeds, sell \in OrderSeeds :
        /\ steps < MaxSteps
        /\ resources' = [resources EXCEPT ![name] = adjust_price(@, buy, sell)]
        /\ lastOp' = [op |-> "adjust_price", product |-> name,
                      buy_orders |-> buy, sell_orders |-> sell]
        /\ pre' = Snapshot
        /\ error' = NoError
        /\ steps' = steps + 1
        /\ UNCHANGED <<buildings, current_construction, construction_progress>>

NextPrice == AdjustPrice

SpecPrice == InitPrice /\ [][NextPrice]_vars

(***************************************************************************)
(* Vocabulary of the market properties.  The allocation a tick works with  *)
(* is the one computed from the state the tick started in.                 *)
(***************************************************************************)
Ticked == lastOp.op = "calculate_building_productions"

InBand(product) ==
    /\ RLe(product.base_price, product.local_price)
    /\ RLe(product.local_price, RMul(product.base_price, product.max_price_cap))

Consumers(bs, good) == {i \in Indices(bs) : good \in DOMAIN bs[i].consumption}

Required(bs, i, good) == RMul(bs[i].consumption[good], R(bs[i].building_level))

TotalRequired(bs, good) ==
    RSum([i \in Indices(bs) |->
             IF i \in Consumers(bs, good) THEN Required(bs, i, good) ELSE Zero],
         Indices(bs))

Allocated(bs, res, i, good) ==
    allocated_get(allocate_resources(bs, res)[bs[i].name], good)

FullySupplied(bs, res, i) ==
    \A good \in DOMAIN bs[i].consumption :
        RLe(Required(bs, i, good), Allocated(bs, res, i, good))

(***************************************************************************)
(* C5  Shortage penalty bound: every building's shortage_penalty lies in   *)
(* [0, 0.5] in every reachable state, and after a tick in which a          *)
(* building's allocation covered its requirement (consumption x level) for *)
(* every consumed good, that building's penalty is exactly 0.              *)
(***************************************************************************)
C5_ShortagePenaltyBound ==
    /\ \A i \in Indices(buildings) :
           /\ RLe(Zero, buildings[i].shortage_penalty)
           /\ RLe(buildings[i].shortage_penalty, Frac(1, 2))
    /\ (Ticked /\ error = NoError) =>
           \A i \in Indices(buildings) :
               FullySupplied(pre.buildings, pre.resources, i)
                   => buildings[i].shortage_penalty = Zero

\* one tick in which a penalised building was fully supplied and reset, while
\* another, at 0.495 and still short, was stopped at the cap
C5_Witness ==
    /\ Ticked
    /\ error = NoError
    /\ \E i \in Indices(buildings) :
           /\ RLt(Zero, pre.buildings[i].shortage_penalty)
           /\ DOMAIN pre.buildings[i].consumption # {}
           /\ pre.buildings[i].building_level > 0
           /\ FullySupplied(pre.buildings, pre.resources, i)
           /\ buildings[i].shortage_penalty = Zero
    /\ \E j \in Indices(buildings) :
           /\ ~FullySupplied(pre.buildings, pre.resources, j)
           /\ RLt(Frac(1, 2), RAdd(pre.buildings[j].shortage_penalty, Frac(1, 100)))
           /\ buildings[j].shortage_penalty = Frac(1, 2)

(***************************************************************************)
(* C6  Price bound after adjust_price: whatever the demand, the supply     *)
(* (zero included) and the prior local_price, the product adjust_price was *)
(* applied to has base_price <= local_price <= base_price x max_price_cap. *)
(***************************************************************************)
C6_PriceBoundAfterAdjust ==
    lastOp.op = "adjust_price" => InBand(resources[lastOp.product])

\* zero supply and a prior price above the band: the drift to the cap is clamped
C6_Witness ==
    /\ lastOp.op = "adjust_price"
    /\ IsZero(lastOp.sell_orders)
    /\ RLt(Zero, resources[lastOp.product].base_price)
    /\ ~InBand(pre.resources[lastOp.product])
    /\ RLt(resources[lastOp.product].local_price, pre.resources[lastOp.product].local_price)
    /\ InBand(resources[lastOp.product])

(***************************************************************************)
(* C7  Product price invariant: in every reachable state, from the         *)
(* construction of the products on, every ledger product has               *)
(* base_price <= local_price <= base_price x max_price_cap.                *)
(***************************************************************************)
C7_PriceInvariant ==
    \A name \in DOMAIN resources : InBand(resources[name])

(***************************************************************************)
(* C8  Allocation conservation under scarcity: in a tick whose allocation  *)
(* step returns, for every good with stock Q > 0 and total requirement     *)
(* R > Q each consumer is allocated exactly Q x required_i / R, and the    *)
(* allocations of the good sum to Q.                                       *)
(***************************************************************************)
Scarce(bs, res, good) ==
    /\ RLt(Zero, res[good].quantity)
    /\ RLt(res[good].quantity, TotalRequired(bs, good))

C8_AllocationConservation ==
    (Ticked /\ error # "ZeroDivisionError") =>
        \A good \in DOMAIN pre.resources :
            Scarce(pre.buildings, pre.resources, good) =>
                /\ \A i \in Consumers(pre.buildings, good) :
                       Allocated(pre.buildings, pre.resources, i, good) =
                           RDiv(RMul(pre.resources[good].quantity,
                                     Required(pre.buildings, i, good)),
                                TotalRequired(pre.buildings, good))
                /\ RSum([i \in Indices(pre.buildings) |->
                            IF i \in Consumers(pre.buildings, good)
                            THEN Allocated(pre.buildings, pre.resources, i, good)
                            ELSE Zero],
                        Indices(pre.buildings)) = pre.resources[good].quantity

\* a scarce good shared by two consumers with different positive requirements
C8_Witness ==
    /\ Ticked
    /\ error = NoError
    /\ \E good \in DOMAIN pre.resources :
           /\ Scarce(pre.buildings, pre.resources, good)
           /\ \E i, j \in Consumers(pre.buildings, good) :
                  /\ RLt(Zero, Required(pre.buildings, i, good))
                  /\ RLt(Required(pre.buildings, i, good), Required(pre.buildings, j, good))
                  /\ RLt(Allocated(pre.buildings, pre.resources, i, good),
                         Allocated(pre.buildings, pre.resources, j, good))

(***************************************************************************)
(* C9  A good with zero stock, or with zero total requirement over the     *)
(* buildings that list it, allocates nothing to any building, and the tick *)
(* computing the allocation does not fail on it.                           *)
(***************************************************************************)
ZeroCase(bs, res, good) ==
    /\ Consumers(bs, good) # {}
    /\ \/ IsZero(res[good].quantity)
       \/ IsZero(TotalRequired(bs, good))

C9_ZeroGoodsAllocateNothing ==
    Ticked =>
        \A good \in DOMAIN pre.resources :
            ZeroCase(pre.buildings, pre.resources, good) =>
                /\ error # "ZeroDivisionError"
                /\ \A i \in Consumers(pre.buildings, good) :
                       IsZero(Allocated(pre.buildings, pre.resources, i, good))

(***************************************************************************)
(* Vocabulary of the action claims: the configuration of a building that   *)
(* an action may touch, and the defined methods of the building named.     *)
(***************************************************************************)
BuildingsUnchanged == buildings = pre.buildings

DefinedMethods(b) == DOMAIN production_methods(b.kind)

(***************************************************************************)
(* C11  NoAction is always accepted (no exception) and leaves every        *)
(* building (level, shortage penalty, active method, production and        *)
(* consumption configuration) and the construction target and progress     *)
(* unchanged, whatever state id and building name it carries.              *)
(***************************************************************************)
C11_NoActionFrame ==
    Executed("NoAction") =>
        /\ error = NoError
        /\ BuildingsUnchanged
        /\ ConstructionUnchanged
        /\ resources = pre.resources

\* a NoAction applied while a construction is in progress and a building
\* stands above level 1, where a downgrade would have had an effect
C11_Witness ==
    /\ Executed("NoAction")
    /\ TargetKnown
    /\ InProgress(pre.current_construction)
    /\ pre.buildings[Target].building_level > 1
    /\ buildings = pre.buildings
    /\ current_construction = pre.current_construction

(***************************************************************************)
(* C12  A swap to a defined method of the building replaces production,    *)
(* consumption and employee roles together: afterwards all three are those *)
(* of the new method, and so are the wages computed from the roles.        *)
(***************************************************************************)
C12_SwapReplacesConfiguration ==
    (/\ Executed("SwapProductionMethod")
     /\ TargetKnown
     /\ lastOp.action.new_production_method \in DefinedMethods(pre.buildings[Target]))
    => LET b == buildings[Target]
           method == lastOp.action.new_production_method
       IN  /\ b.production_method = method
           /\ b.production = production_methods(b.kind)[method].production
           /\ b.consumption = production_methods(b.kind)[method].consumption
           /\ b.employee = employee_config(b.kind)[method]
           /\ calculate_wages(b) =
                  calculate_wages([b EXCEPT !.employee = employee_config(b.kind)[method]])

(***************************************************************************)
(* C13  A swap to a name that is not a defined method of the building      *)
(* changes nothing and is reported to the caller as an                     *)
(* InvalidProductionMethod error.                                          *)
(***************************************************************************)
C13_InvalidSwapReported ==
    (/\ Executed("SwapProductionMethod")
     /\ TargetKnown
     /\ lastOp.action.new_production_method \notin DefinedMethods(pre.buildings[Target]))
    => /\ BuildingsUnchanged
       /\ ConstructionUnchanged
       /\ error = "InvalidProductionMethod"

(***************************************************************************)
(* C14  A swap, upgrade or downgrade naming a building the state does not  *)
(* hold, or a state the country does not own, is reported as an            *)
(* UnknownBuilding or UnknownState error and leaves the buildings and the  *)
(* construction state as NoAction would.                                   *)
(***************************************************************************)
C14_UnknownTargetReported ==
    (/\ lastOp.op = "execute_action"
     /\ lastOp.action.action_type \in {"SwapProductionMethod", "Upgrade", "Downgrade"}
     /\ ~TargetKnown)
    => /\ error \in {"UnknownBuilding", "UnknownState"}
       /\ BuildingsUnchanged
       /\ ConstructionUnchanged

(***************************************************************************)
(* Country.get_available_options: per state the list of candidate actions, *)
(* building by building in list order: the swaps to every other method in  *)
(* the order of the production_methods table, an upgrade when no           *)
(* construction is recorded and the level is below the maximum, a          *)
(* downgrade when the level is at least 1, and a NoAction.                 *)
(***************************************************************************)
method_keys(kind) ==
    CASE kind = "LoggingCamp" -> <<"SimpleForestry", "SawMills">>
      [] kind = "ToolWorkshop" -> <<"CrudeTools", "WroughtIronTools">>
      [] kind = "ConstructionSector" -> <<"NoConstruction", "WoodenBuilding", "IronBuilding">>

\* mutant: an upgrade is offered whenever the level is below the maximum
building_options_ignoring_construction(c, state_id, building) ==
    LET current_method == building.production_method
        methods == SelectSeq(method_keys(building.kind), LAMBDA method : method # current_method)
    IN  [k \in 1..Len(methods) |->
            SwapProductionMethod(state_id, building.name, methods[k])]
        \o (IF building.building_level < building.building_max_level
            THEN <<UpgradeBuilding(state_id, building.name)>> ELSE <<>>)
        \o (IF building.building_level >= 1
            THEN <<DowngradeBuilding(state_id, building.name)>> ELSE <<>>)
        \o <<NoAction(state_id, building.name)>>

building_options(c, state_id, building) ==
    LET current_method == building.production_method
        methods == SelectSeq(method_keys(building.kind), LAMBDA method : method # current_method)
    IN  [k \in 1..Len(methods) |->
            SwapProductionMethod(state_id, building.name, methods[k])]
        \o (IF /\ c.current_construction = NoConstructionProject
               /\ building.building_level < building.building_max_level
            THEN <<UpgradeBuilding(state_id, building.name)>> ELSE <<>>)
        \o (IF building.building_level >= 1
            THEN <<DowngradeBuilding(state_id, building.name)>> ELSE <<>>)
        \o <<NoAction(state_id, building.name)>>

RECURSIVE state_options(_, _, _)
state_options(c, state_id, i) ==
    IF i > Len(c.buildings) THEN <<>>
    ELSE building_options(c, state_id, c.buildings[i]) \o state_options(c, state_id, i + 1)

get_available_options(c) ==
    [state_id \in States |-> state_options(c, state_id, 1)]

(***************************************************************************)
(* Vocabulary of the candidate claims: the candidates of a state, how many *)
(* of them are a given action, and the idle controller.                    *)
(***************************************************************************)
Candidates == get_available_options(Country)["State1"]

Occurrences(options, action) ==
    Cardinality({k \in DOMAIN options : options[k] = action})

Idle == current_construction = NoConstructionProject

(***************************************************************************)
(* C15  Candidate enumeration: in every reachable state the candidate list *)
(* holds, for each building, exactly one swap per defined method other     *)
(* than the active one, one upgrade iff the controller is idle and the     *)
(* level is below the maximum, one downgrade iff the level is at least 1,  *)
(* and exactly one NoAction; and it holds nothing else.                    *)
(***************************************************************************)
ExpectedOccurrences(b, action) ==
    CASE action.action_type = "SwapProductionMethod" ->
           IF /\ action.new_production_method \in DefinedMethods(b)
              /\ action.new_production_method # b.production_method
           THEN 1 ELSE 0
      [] action.action_type = "Upgrade" ->
           IF Idle /\ b.building_level < b.building_max_level THEN 1 ELSE 0
      [] action.action_type = "Downgrade" ->
           IF b.building_level >= 1 THEN 1 ELSE 0
      [] action.action_type = "NoAction" -> 1

ActionsOn(b) ==
    {SwapProductionMethod("State1", b.name, method) : method \in MethodNames}
        \cup {UpgradeBuilding("State1", b.name), DowngradeBuilding("State1", b.name),
              NoAction("State1", b.name)}

C15_CandidateEnumeration ==
    /\ \A i \in Indices(buildings) : \A action \in ActionsOn(buildings[i]) :
           Occurrences(Candidates, action) = ExpectedOccurrences(buildings[i], action)
    /\ \A k \in DOMAIN Candidates :
           \E i \in Indices(buildings) : Candidates[k] \in ActionsOn(buildings[i])

\* the candidates of a state with a construction in progress, a building
\* below its maximum, a building at level 0 and a building on a method it
\* was swapped to
C15_Witness ==
    /\ ~Idle
    /\ \E i \in Indices(buildings) :
           /\ buildings[i].building_level < buildings[i].building_max_level
           /\ Occurrences(Candidates, UpgradeBuilding("State1", buildings[i].name)) = 0
    /\ \E i \in Indices(buildings) :
           /\ buildings[i].building_level = 0
           /\ Occurrences(Candidates, DowngradeBuilding("State1", buildings[i].name)) = 0
           /\ Occurrences(Candidates, NoAction("State1", buildings[i].name)) = 1
    /\ \E i \in Indices(buildings) :
           /\ buildings[i].production_method = "SawMills"
           /\ Occurrences(Candidates,
                  SwapProductionMethod("State1", buildings[i].name, "SimpleForestry")) = 1
           /\ Occurrences(Candidates,
                  SwapProductionMethod("State1", buildings[i].name, "SawMills")) = 0

(***************************************************************************)
(* C16  Every candidate is legal where it was enumerated: applied at once  *)
(* it raises nothing and takes effect (an upgrade becomes the construction *)
(* target of a building below its maximum, a downgrade lowers the level, a *)
(* swap activates the new method).                                         *)
(***************************************************************************)
TakesEffect(c, action) ==
    LET out == execute_action(c, action)
        i == get_building_by_name(c.buildings, action.building_name)
    IN  /\ out.error = NoError
        /\ i # NotFound
        /\ CASE action.action_type = "SwapProductionMethod" ->
                  out.buildings[i].production_method = action.new_production_method
             [] action.action_type = "Upgrade" ->
                  /\ out.current_construction = action
                  /\ c.current_construction = NoConstructionProject
                  /\ c.buildings[i].building_level < c.buildings[i].building_max_level
             [] action.action_type = "Downgrade" ->
                  out.buildings[i].building_level = c.buildings[i].building_level - 1
             [] action.action_type = "NoAction" -> TRUE

C16_CandidatesAreLegal ==
    \A k \in DOMAIN Candidates : TakesEffect(Country, Candidates[k])

(***************************************************************************)
(* The driver (service/simulation.py).  One day of run_simulation:         *)
(* enumerate the candidates of State1, record the daily state, convert     *)
(* every candidate to its numeric dict, let the agent pick one of the      *)
(* dicts, pass the picked dict to execute_action, then tick the state.     *)
(* An exception ends the run.                                              *)
(***************************************************************************)
ACTION_TYPES ==
    ("SwapProductionMethod" :> 1) @@ ("Upgrade" :> 2) @@ ("Downgrade" :> 3) @@ ("NoAction" :> 4)

\* hash(s) % 1000: the value depends on the interpreter's hash seed and is
\* read by the agent's scoring only
hash_mod_1000(s) == CHOOSE h \in 0..999 : TRUE

index(keys, key) == (CHOOSE k \in 1..Len(keys) : keys[k] = key) - 1

\* the numeric representation is a plain dict, not an Action
convert_option_to_numeric(c, action) ==
    [class |-> "dict",
     action_type |-> ACTION_TYPES[action.action_type],
     state_id |-> hash_mod_1000(action.state_id),
     building_name |-> hash_mod_1000(action.building_name),
     new_production_method |->
         IF isinstance(action, "SwapProductionMethod")
         THEN index(method_keys(c.buildings[get_building_by_name(c.buildings,
                                                action.building_name)].kind),
                    action.new_production_method)
         ELSE -1]

\* record_daily_state reads self.construction_progress when a construction
\* is recorded
record_daily_state_raises(c) ==
    /\ c.current_construction # NoConstructionProject
    /\ ~c.construction_progress.declared

\* pick_options returns one of the numeric dicts; which one is the agent's
\* choice, here the dict of the k-th candidate
run_simulation_day(c, res, k) ==
    LET options == get_available_options(c)["State1"]
        top_option == convert_option_to_numeric(c, options[k])
        out == IF record_daily_state_raises(c)
               THEN Outcome(c, "AttributeError")
               ELSE execute_action(c, top_option)
        tick == calculate_building_productions(out.buildings, res)
    IN  IF out.error # NoError
        THEN [buildings |-> out.buildings, resources |-> res,
              current_construction |-> out.current_construction,
              construction_progress |-> out.construction_progress,
              error |-> out.error]
        ELSE [buildings |-> tick.buildings, resources |-> tick.resources,
              current_construction |-> out.current_construction,
              construction_progress |-> out.construction_progress,
              error |-> tick.error]

RunSimulationDay ==
    /\ steps < MaxSteps
    /\ error = NoError
    /\ \E k \in 1..Len(get_available_options(Country)["State1"]) :
           /\ Apply(run_simulation_day(Country, resources, k),
                    [op |-> "run_simulation",
                     action |-> get_available_options(Country)["State1"][k],
                     contribution |-> Zero])
           /\ resources' = run_simulation_day(Country, resources, k).resources
    /\ steps' = steps + 1

NextDriver == RunSimulationDay

SpecDriver == Init /\ [][NextDriver]_vars

(***************************************************************************)
(* C17  In each simulated day the action chosen from that day's candidate  *)
(* list is applied to the country before the tick: after the day the       *)
(* construction state, the levels and the active methods are those that    *)
(* execute_action gives for the chosen action.                             *)
(***************************************************************************)
CountryBefore ==
    [buildings |-> pre.buildings,
     current_construction |-> pre.current_construction,
     construction_progress |-> pre.construction_progress]

C17_DriverAppliesChosenAction ==
    (lastOp.op = "run_simulation" /\ error = NoError) =>
        LET applied == execute_action(CountryBefore, lastOp.action)
        IN  /\ \E k \in DOMAIN get_available_options(CountryBefore)["State1"] :
                   get_available_options(CountryBefore)["State1"][k] = lastOp.action
            /\ current_construction = applied.current_construction
            /\ \A i \in Indices(buildings) :
                   /\ buildings[i].building_level = applied.buildings[i].building_level
                   /\ buildings[i].production_method = applied.buildings[i].production_method
                   /\ buildings[i].consumption = applied.buildings[i].consumption

ShortGoods(bs, res, i) ==
    {good \in DOMAIN bs[i].consumption :
        RLt(Allocated(bs, res, i, good), Required(bs, i, good))}

MissingShare(bs, res, i, good) ==
    RSub(R(1), RDiv(Allocated(bs, res, i, good), Required(bs, i, good)))

MaxMissingShare(bs, res, i) ==
    LET worst == CHOOSE good \in ShortGoods(bs, res, i) :
                     \A other \in ShortGoods(bs, res, i) :
                         RLe(MissingShare(bs, res, i, other), MissingShare(bs, res, i, good))
    IN  MissingShare(bs, res, i, worst)

C19_ShortagePenaltyRule ==
    (Ticked /\ error = NoError) =>
        \A i \in Indices(buildings) :
            ShortGoods(pre.buildings, pre.resources, i) # {} =>
                buildings[i].shortage_penalty =
                    RMin(RMin(RAdd(pre.buildings[i].shortage_penalty, Frac(1, 100)),
                              Frac(1, 2)),
                         MaxMissingShare(pre.buildings, pre.resources, i))

\* consumption {tools: 10} at level 1 with a tools stock of 5 and no penalty:
\* the allocation is 5 and the penalty becomes 0.01
C19_Witness ==
    /\ Ticked
    /\ error = NoError
    /\ \E i \in Indices(buildings) :
           /\ pre.buildings[i].consumption = ("tools" :> R(10))
           /\ pre.buildings[i].building_level = 1
           /\ pre.resources["tools"].quantity = R(5)
           /\ pre.buildings[i].shortage_penalty = Zero
           /\ Allocated(pre.buildings, pre.resources, i, "tools") = R(5)
           /\ buildings[i].shortage_penalty = Frac(1, 100)

(***************************************************************************)
(* C20  One tick reaches the state of the fixed order: aggregate demand    *)
(* and supply, update every product's price, compute every building's      *)
(* allocation from the stock before any building has consumed or produced, *)
(* then per building in list order update the shortage penalty, deduct the *)
(* allocation, credit the production and settle the cash at the updated    *)
(* prices.                                                                 *)
(***************************************************************************)
SettleBuilding(st, i, allocations) ==
    LET allocation == allocations[st.buildings[i].name]
        penalised == update_shortage_penalty(st.buildings[i], allocation)
        deducted == deduct(st.resources, allocation, DOMAIN allocation)
        produced == get_daily_production(penalised)
        credited == credit(deducted, produced, DOMAIN produced)
    IN  [buildings |-> [st.buildings EXCEPT ![i] = update_cash_balance(penalised, credited)],
         resources |-> credited]

RECURSIVE SettleBuildings(_, _, _)
SettleBuildings(st, i, allocations) ==
    IF i > Len(st.buildings) THEN st
    ELSE SettleBuildings(SettleBuilding(st, i, allocations), i + 1, allocations)

FixedOrderTick(bs, res) ==
    LET orders == calculate_demand_supply(bs)
        priced == [name \in DOMAIN res |->
                      update_product_price(res[name], orders.buy_orders, orders.sell_orders)]
        allocations == allocate_resources(bs, priced)
    IN  SettleBuildings([buildings |-> bs, resources |-> priced], 1, allocations)

C20_TickOrder ==
    (Ticked /\ error = NoError) =>
        /\ buildings = FixedOrderTick(pre.buildings, pre.resources).buildings
        /\ resources = FixedOrderTick(pre.buildings, pre.resources).resources

\* a tick in which two buildings share a scarce good that a later building
\* produces, and a price moves
C20_Witness ==
    /\ Ticked
    /\ error = NoError
    /\ \E good \in DOMAIN pre.resources :
           /\ Scarce(pre.buildings, pre.resources, good)
           /\ \E i, j \in Consumers(pre.buildings, good) :
                  /\ i < j
                  /\ RLt(Zero, Required(pre.buildings, i, good))
                  /\ RLt(Zero, Required(pre.buildings, j, good))
                  /\ \E k \in Indices(pre.buildings) :
                         /\ j < k
                         /\ good \in DOMAIN pre.buildings[k].production
                         /\ pre.buildings[k].building_level > 0
           /\ resources[good].local_price # pre.resources[good].local_price
           /\ RLt(Zero, resources[good].quantity)

(***************************************************************************)
(* State.add_building: the building is appended and the stock of every     *)
(* good it consumes is raised by one day's requirement; a consumed good    *)
(* the ledger lacks enters it at base price 0.  Goods the building         *)
(* produces are not entered.                                               *)
(***************************************************************************)
RECURSIVE add_requirements(_, _, _)
add_requirements(res, building, goods) ==
    IF goods = {} THEN res
    ELSE LET resource == CHOOSE g \in goods : TRUE
             required_quantity ==
                 RMul(building.consumption[resource], R(building.building_level))
             res2 ==
                 IF resource \in DOMAIN res
                 THEN [res EXCEPT ![resource].quantity = RAdd(@, required_quantity)]
                 ELSE res @@ (resource :> Product(resource, Zero, required_quantity, Zero))
         IN  add_requirements(res2, building, goods \ {resource})

add_building(st, building) ==
    [buildings |-> Append(st.buildings, building),
     resources |-> add_requirements(st.resources, building, DOMAIN building.consumption)]

(***************************************************************************)
(* States assembled with add_building on a ledger that holds only some of  *)
(* the goods, as State(id, buildings=[], resources={...}) followed by      *)
(* add_building for each building; advanced by ticks alone.                *)
(***************************************************************************)
LedgerGoods == {{}, {"wood"}, {"wood", "tools"}, {"wood", "tools", "iron"},
                {"wood", "tools", "iron", "construction"}}

partial_ledger(goods, q) == [name \in goods |-> seeded_ledger(q)[name]]

assembled_state(goods, q, levels) ==
    add_building(
        add_building(
            add_building([buildings |-> <<>>, resources |-> partial_ledger(goods, q)],
                         initial_buildings(levels)[1]),
            initial_buildings(levels)[2]),
        initial_buildings(levels)[3])

InitLedger ==
    \E goods \in LedgerGoods, q \in SeedQuantities, levels \in InitialLevels :
        Constructed(assembled_state(goods, q, levels).buildings,
                    assembled_state(goods, q, levels).resources)

NextLedger == Tick

SpecLedger == InitLedger /\ [][NextLedger]_vars

(***************************************************************************)
(* C21  When a building produces a good the ledger does not hold, the tick *)
(* completes and the ledger afterwards holds an entry for the good whose   *)
(* quantity is the amount produced.                                        *)
(***************************************************************************)
Producers(bs, good) == {i \in Indices(bs) : good \in DOMAIN bs[i].production}

NewGoods(bs, res) ==
    {good \in UNION {DOMAIN bs[i].production : i \in Indices(bs)} : good \notin DOMAIN res}

C21_NewProductEntry ==
    (Ticked /\ NewGoods(pre.buildings, pre.resources) # {}) =>
        /\ error = NoError
        /\ \A good \in NewGoods(pre.buildings, pre.resources) :
               /\ good \in DOMAIN resources
               /\ resources[good].quantity =
                      RSum([i \in Indices(buildings) |->
                               IF i \in Producers(buildings, good)
                               THEN get_daily_production(buildings[i])[good]
                               ELSE Zero],
                           Indices(buildings))

(***************************************************************************)
(* C22  In a tick every building's cash_reserve changes by exactly the sum *)
(* over its produced goods of daily production x the price after the       *)
(* tick's price update, minus its wages, the daily production taken with   *)
(* the shortage penalty as updated in the same tick; the cost of the       *)
(* consumed inputs is not charged, and the change may be negative.         *)
(***************************************************************************)
Throughput(b) ==
    LET bonus == IF b.building_level > 1
                 THEN RAdd(R(1), Frac(b.building_level - 1, 100))
                 ELSE R(1)
    IN  RSub(RAdd(R(1), RDiv(bonus, R(100))), b.shortage_penalty)

Revenue(b, res) ==
    RSum([good \in DOMAIN b.production |->
             RMul(RMul(RMul(RMul(b.production[good], R(b.building_level)),
                            RMax(Throughput(b), Zero)),
                       Frac(1, 7)),
                  res[good].local_price)],
         DOMAIN b.production)

Wages(b) ==
    RSum([role \in DOMAIN b.employee |->
             Frac(b.employee[role].wage[1] * b.employee[role].count * b.building_level,
                  b.employee[role].wage[2] * 365)],
         DOMAIN b.employee)

C22_CashDelta ==
    (Ticked /\ error = NoError) =>
        \A i \in Indices(buildings) :
            buildings[i].cash_reserve =
                Append(pre.buildings[i].cash_reserve,
                       [revenue |-> Revenue(buildings[i], resources),
                        expenses |-> Wages(buildings[i])])

\* a tick in which a building in shortage earned less than its wages, while
\* a building whose inputs have a positive price made a positive revenue
C22_Witness ==
    /\ Ticked
    /\ error = NoError
    /\ \E i \in Indices(buildings) :
           /\ RLt(Zero, buildings[i].shortage_penalty)
           /\ RLt(Revenue(buildings[i], resources), Wages(buildings[i]))
           /\ buildings[i].cash_reserve # pre.buildings[i].cash_reserve
    /\ \E j \in Indices(buildings) :
           /\ RLt(Zero, Revenue(buildings[j], resources))
           /\ buildings[j].building_level > 0
           /\ \E good \in DOMAIN buildings[j].consumption :
                  RLt(Zero, resources[good].local_price)

(***************************************************************************)
(* Construction on its own: upgrades are requested and a strictly positive *)
(* contribution is supplied again and again, without end.                  *)
(***************************************************************************)
Contribute ==
    \E amount \in Contributions :
        /\ Apply(update_construction_progress(Country, R(amount)),
                 [op |-> "update_construction_progress",
                  action |-> NoConstructionProject, contribution |-> R(amount)])
        /\ UNCHANGED <<resources, steps>>

NextConstruction ==
    \/ Upgrade
    \/ Contribute

SpecConstruction ==
    Init /\ [][NextConstruction]_vars /\ WF_vars(Contribute)

(***************************************************************************)
(* C23  Liveness of construction: once an upgrade of a building of the     *)
(* owned state has been accepted, contributions supplied without end lead  *)
(* to the controller being idle again with the target's level raised.      *)
(***************************************************************************)
ConstructionTarget ==
    get_building_by_name(buildings, current_construction.building_name)

UpgradeAccepted ==
    /\ current_construction # NoConstructionProject
    /\ current_construction.state_id \in States
    /\ ConstructionTarget # NotFound

UpgradeCompleted ==
    /\ current_construction = NoConstructionProject
    /\ lastOp.op = "update_construction_progress"
    /\ \E i \in Indices(buildings) :
           buildings[i].building_level = pre.buildings[i].building_level + 1

C23_ConstructionCompletes == UpgradeAccepted ~> UpgradeCompleted

(***************************************************************************)
(* C24  A good with positive stock and positive total requirement at the   *)
(* start of a tick is handed out completely: the allocations sum to the    *)
(* stock also when the stock exceeds the requirement, no deduction goes    *)
(* below zero, and the stock after the tick is exactly the amount of the   *)
(* good produced in the tick.                                              *)
(***************************************************************************)
HandedOut(bs, res, good) ==
    /\ RLt(Zero, res[good].quantity)
    /\ Consumers(bs, good) # {}
    /\ RLt(Zero, TotalRequired(bs, good))

AllocatedUpTo(bs, res, good, n) ==
    RSum([i \in Indices(bs) |->
             IF i \in Consumers(bs, good) /\ i <= n
             THEN Allocated(bs, res, i, good) ELSE Zero],
         Indices(bs))

ProducedUpTo(bs, good, n) ==
    RSum([i \in Indices(bs) |->
             IF i \in Producers(bs, good) /\ i <= n
             THEN get_daily_production(bs[i])[good] ELSE Zero],
         Indices(bs))

Configuration(b) ==
    [name |-> b.name, kind |-> b.kind, build_cost |-> b.build_cost,
     building_level |-> b.building_level,
     building_max_level |-> b.building_max_level,
     production_method |-> b.production_method,
     production |-> b.production, consumption |-> b.consumption,
     employee |-> b.employee]

C25_TickFrame ==
    Ticked =>
        /\ Len(buildings) = Len(pre.buildings)
        /\ \A i \in Indices(buildings) :
               Configuration(buildings[i]) = Configuration(pre.buildings[i])
        /\ ConstructionUnchanged

\* a completed tick during a construction that moved a price, a stock, a
\* cash reserve and a shortage penalty
C25_Witness ==
    /\ Ticked
    /\ error = NoError
    /\ InProgress(current_construction)
    /\ \E name \in DOMAIN resources :
           /\ resources[name].local_price # pre.resources[name].local_price
           /\ resources[name].quantity # pre.resources[name].quantity
    /\ \E i \in Indices(buildings) :
           /\ buildings[i].shortage_penalty # pre.buildings[i].shortage_penalty
           /\ buildings[i].cash_reserve # pre.buildings[i].cash_reserve
           /\ buildings[i].building_level > 0

(***************************************************************************)
(* C26  Every building's throughput multiplier                             *)
(* 1 + throughput_bonus / 100 - shortage_penalty is at least 0.51 in every *)
(* reachable state, so the floor at 0 has no effect, and a building at     *)
(* level >= 1 has strictly positive sell orders and daily production for   *)
(* every good with a positive production entry.                            *)
(***************************************************************************)
C26_ThroughputPositive ==
    \A i \in Indices(buildings) :
        LET b == buildings[i]
        IN  /\ RLe(Frac(51, 100), calculate_throughput_multiplier(b))
            /\ calculate_throughput_multiplier(b) =
                   RSub(RAdd(R(1), RDiv(get_throughput_bonus(b), R(100))),
                        b.shortage_penalty)
            /\ b.building_level >= 1 =>
                   \A good \in DOMAIN b.production :
                       RLt(Zero, b.production[good]) =>
                           /\ RLt(Zero, calculate_sell_orders(b)[good])
                           /\ RLt(Zero, get_daily_production(b)[good])

\* after a tick a level-1 building stands at the penalty cap: its multiplier
\* is exactly 0.51 and it still produces
C26_Witness ==
    /\ Ticked
    /\ error = NoError
    /\ \E i \in Indices(buildings) :
           /\ buildings[i].building_level = 1
           /\ buildings[i].shortage_penalty = Frac(1, 2)
           /\ calculate_throughput_multiplier(buildings[i]) = Frac(51, 100)
           /\ \E good \in DOMAIN buildings[i].production :
                  RLt(Zero, get_daily_production(buildings[i])[good])

====
